---- MODULE Spec2Model ----
(***************************************************************************)
(* Model of labs/lab3/lab3_era5_analysis.py: the ERA5 wind analysis for    *)
(* Berlin and Munich.  main() is a straight-line program; every statement  *)
(* that changes the data is one action, taken in program order.  The       *)
(* pandas calls are modelled by what they do to the table: the timestamp   *)
(* is the index of the table, u10m/v10m/wind_speed/season/hour are its     *)
(* columns.                                                                *)
(***************************************************************************)
EXTENDS Integers, Sequences, FiniteSets, TLC

VARIABLES files, pc, status, df, loads, monthly, seasonal, daily, top5, hourly, shown

vars == <<files, pc, status, df, loads, monthly, seasonal, daily, top5, hourly, shown>>

\* ------------------------------------------------------------------ bounds
\* longest free-form input table
MaxRows == 3
\* number of consecutive calendar days covered by a day-per-row input table
DenseDays == 6

\* ------------------------------------------------------------- basic values
\* the missing marker of a float column (NaN) and of a datetime (NaT)
NaN == -9999
NaT == NaN

\* lines 48-49: the two files, named by their city here
BERLIN_FILE == "berlin"
MUNICH_FILE == "munich"

Cities == {BERLIN_FILE, MUNICH_FILE}

RECURSIVE SumSeq(_)
SumSeq(s) == IF s = <<>> THEN 0 ELSE Head(s) + SumSeq(Tail(s))

RECURSIVE Gcd(_, _)
Gcd(a, b) == IF b = 0 THEN a ELSE Gcd(b, a % b)

\* the exact value num/den of a float, in lowest terms
Ratio(num, den) ==
  LET g == Gcd(num, den) IN [num |-> num \div g, den |-> den \div g]

\* the mean of no value: 0/0
NaNMean == [num |-> 0, den |-> 0]

\* a < b on means that are not missing
Less(a, b) == a.num * b.den < b.num * a.den

\* ------------------------------------------------------------ the calendar
\* the year of the data files is 2024, a leap year
DaysInMonth == <<31, 29, 31, 30, 31, 30, 31, 31, 30, 31, 30, 31>>

\* the number of days of the year before month mo
DaysBeforeMonth == [mo \in 1..12 |-> SumSeq(SubSeq(DaysInMonth, 1, mo - 1))]

DaysBefore(mo) == DaysBeforeMonth[mo]

\* the month of day number day (0 is 01-01)
MonthOfDay ==
  [day \in 0..(SumSeq(DaysInMonth) - 1) |->
     CHOOSE mo \in 1..12 : DaysBefore(mo) <= day /\ day < DaysBefore(mo) + DaysInMonth[mo]]

\* pd.to_datetime(cell, errors='coerce'): the hour number of a
\* "2024-MM-DD HH:00:00" cell since 2024-01-01 00:00, NaT for a cell that is
\* no date
to_datetime(cell) ==
  IF /\ cell.mo \in 1..12
     /\ cell.d \in 1..DaysInMonth[cell.mo]
     /\ cell.h \in 0..23
  THEN (DaysBefore(cell.mo) + cell.d - 1) * 24 + cell.h
  ELSE NaT

\* DatetimeIndex.month / .hour: NaN for NaT
IndexMonth(ts) == IF ts = NaT THEN NaN ELSE MonthOfDay[ts \div 24]

IndexHour(ts) == IF ts = NaT THEN NaN ELSE ts % 24

\* the calendar-day bucket of resample('D')
IndexDay(ts) == ts \div 24

\* ----------------------------------------------------------------- inputs
\* timestamp cells of the free-form tables: 02-29 23:00, 03-01 00:00 and
\* 02-30 00:00, which is no date
RawStamps ==
  { [mo |-> 2, d |-> 29, h |-> 23], [mo |-> 3, d |-> 1, h |-> 0],
    [mo |-> 2, d |-> 30, h |-> 0] }

\* (u10m, v10m) cells; an empty cell is read as NaN
RawWinds == { <<3, 4>>, <<0, 0>>, <<NaN, 4>> }

RawRows ==
  { [timestamp |-> t, u10m |-> w[1], v10m |-> w[2]] : t \in RawStamps, w \in RawWinds }

FreeTables == UNION { [1..n -> RawRows] : n \in 0..MaxRows }

\* day-per-row tables: from 08-29 on, one row at 00:00 for each of DenseDays
\* days, or no row for that day
DenseStart == [mo |-> 8, d |-> 29]

DenseWinds == { <<3, 4>>, <<0, 0>> }

DenseCell(k) ==
  LET day == DaysBefore(DenseStart.mo) + DenseStart.d - 1 + k
      mo  == MonthOfDay[day]
  IN  [mo |-> mo, d |-> day - DaysBefore(mo) + 1, h |-> 0]

RECURSIVE DenseFrom(_, _)
DenseFrom(pick, k) ==
  IF k >= DenseDays THEN <<>>
  ELSE (IF pick[k] = <<>> THEN <<>>
        ELSE << [timestamp |-> DenseCell(k), u10m |-> pick[k][1], v10m |-> pick[k][2]] >>)
       \o DenseFrom(pick, k + 1)

DenseTables ==
  { DenseFrom(pick, 0) : pick \in [0..(DenseDays - 1) -> DenseWinds \cup {<<>>}] }

\* a file on disk: absent, without a 'timestamp' column, or a table
Table(rows) == [exists |-> TRUE, has_timestamp |-> TRUE, rows |-> rows]

BadFiles ==
  { [exists |-> FALSE, has_timestamp |-> FALSE, rows |-> <<>>],
    [exists |-> TRUE, has_timestamp |-> FALSE, rows |-> <<>>] }

RichFiles == { Table(t) : t \in FreeTables \cup DenseTables } \cup BadFiles

\* the other file: absent, without a 'timestamp' column, or one table, out of
\* order, with an invalid timestamp and an empty v10m cell
SmallFiles ==
  BadFiles \cup
  { Table(<< [timestamp |-> [mo |-> 3, d |-> 1, h |-> 0], u10m |-> 3, v10m |-> NaN],
             [timestamp |-> [mo |-> 2, d |-> 30, h |-> 0], u10m |-> 0, v10m |-> 0],
             [timestamp |-> [mo |-> 2, d |-> 29, h |-> 23], u10m |-> 3, v10m |-> 4] >>) }

\* ------------------------------------------------------------ the program
\* the statements of main() that change data, in program order, by line
Program ==
  << <<"load", "berlin">>, <<"load", "munich">>,
     <<"dropna", "berlin">>, <<"dropna", "munich">>,
     <<"wind_speed", "berlin">>, <<"wind_speed", "munich">>,
     <<"monthly", "berlin">>, <<"monthly", "munich">>,
     <<"season", "berlin">>, <<"season", "munich">>,
     <<"seasonal", "berlin">>, <<"seasonal", "munich">>,
     <<"daily", "berlin">>, <<"daily", "munich">>,
     <<"top5", "berlin">>, <<"top5", "munich">>,
     <<"hour", "berlin">>, <<"hour", "munich">>,
     <<"hourly", "berlin">>, <<"hourly", "munich">>,
     <<"show", "monthly">>, <<"show", "seasonal">>, <<"show", "diurnal">> >>

At(stage, c) == status = "running" /\ pc <= Len(Program) /\ Program[pc] = <<stage, c>>

\* statement <<stage, c>> has been executed
Past(stage, c) == \E i \in 1..(pc - 1) : Program[i] = <<stage, c>>

Advance ==
  /\ pc' = pc + 1
  /\ status' = IF pc = Len(Program) THEN "done" ELSE "running"

Fail ==
  /\ pc' = pc
  /\ status' = "failed"

\* the two files: Berlin's of RichFiles, Munich's of SmallFiles
InputFiles ==
  { [c \in Cities |-> IF c = BERLIN_FILE THEN big ELSE small] :
      big \in RichFiles, small \in SmallFiles }

Init ==
  /\ files \in InputFiles
  /\ pc = 1
  /\ status = "running"
  /\ df = [c \in Cities |-> <<>>]
  /\ loads = [c \in Cities |-> 0]
  /\ monthly = [c \in Cities |-> <<>>]
  /\ seasonal = [c \in Cities |-> <<>>]
  /\ daily = [c \in Cities |-> <<>>]
  /\ top5 = [c \in Cities |-> <<>>]
  /\ hourly = [c \in Cities |-> <<>>]
  /\ shown = <<>>

\* ------------------------------------------------------------------ Loader
Perms(n) == { p \in [1..n -> 1..n] : \A i, j \in 1..n : i # j => p[i] # p[j] }

Permute(s, p) == [i \in 1..Len(s) |-> s[p[i]]]

\* Index.is_monotonic_increasing: non-decreasing and without NaT
is_monotonic_increasing(rows) ==
  /\ \A i \in 1..Len(rows) : rows[i].index # NaT
  /\ \A i, j \in 1..Len(rows) : i < j => rows[i].index <= rows[j].index

\* what an argsort of kind 'quicksort' with na_position 'last' may return:
\* the valid keys ascending, equal keys in any order, then the missing keys
\* in their original order
\* (before[a][b]: entry a sorts strictly before entry b; missing: the
\* entries with a missing key)
QuicksortOrders(n, before, missing) ==
  { p \in Perms(n) :
      \A i, j \in 1..n : i < j =>
        /\ p[i] \in missing => p[j] \in missing /\ p[i] < p[j]
        /\ p[i] \notin missing /\ p[j] \notin missing => ~before[p[j]][p[i]] }

\* sort_index with the sort left out
sort_index_skipped(rows) == {rows}

\* df.sort_index(inplace=True): nothing is moved when the index is already
\* monotonic; otherwise the default quicksort orders it
sort_index(rows) ==
  IF is_monotonic_increasing(rows) THEN {rows}
  ELSE LET n       == Len(rows)
           earlier == [a \in 1..n |-> [b \in 1..n |-> rows[a].index < rows[b].index]]
           missing == { a \in 1..n : rows[a].index = NaT }
       IN  { Permute(rows, p) : p \in QuicksortOrders(n, earlier, missing) }

\* lines 34-38: read_csv, to_datetime(errors='coerce'), set_index
ParsedRows(file) ==
  [i \in 1..Len(file.rows) |->
     [index |-> to_datetime(file.rows[i].timestamp),
      u10m |-> file.rows[i].u10m,
      v10m |-> file.rows[i].v10m]]

\* read_csv raises for an absent file, df['timestamp'] for an absent column
LoadRaises(file) == ~file.exists \/ ~file.has_timestamp

load_era5_data(c) ==
  /\ At("load", c)
  /\ loads' = [loads EXCEPT ![c] = @ + 1]
  /\ IF LoadRaises(files[c])
     THEN /\ Fail
          /\ UNCHANGED df
     ELSE /\ \E sorted \in sort_index(ParsedRows(files[c])) :
               df' = [df EXCEPT ![c] = sorted]
          /\ Advance
  /\ UNCHANGED <<files, monthly, seasonal, daily, top5, hourly, shown>>

\* ----------------------------------------------------------------- Cleaner
Columns(row) == DOMAIN row \ {"index"}

\* DataFrame.dropna keeps the rows without a missing value in a column;
\* the index is no column
HasNaN(row) == \E col \in Columns(row) : row[col] = NaN

dropna_rows(rows) == SelectSeq(rows, LAMBDA r : ~HasNaN(r))

dropna(c) ==
  /\ At("dropna", c)
  /\ df' = [df EXCEPT ![c] = dropna_rows(@)]
  /\ Advance
  /\ UNCHANGED <<files, loads, monthly, seasonal, daily, top5, hourly, shown>>

\* -------------------------------------------------------------- Aggregator
\* np.sqrt on the perfect squares the inputs produce
Sqrt(x) == CHOOSE r \in 0..x : r * r = x

\* lines 84-89; NaN propagates
calculate_wind_speed(u, v) ==
  IF u = NaN \/ v = NaN THEN NaN ELSE Sqrt(u * u + v * v)

\* df[col] = values
AddColumn(rows, col, values) ==
  [i \in 1..Len(rows) |-> (col :> values[i]) @@ rows[i]]

wind_speed(c) ==
  /\ At("wind_speed", c)
  /\ df' = [df EXCEPT ![c] =
              AddColumn(@, "wind_speed",
                        [i \in 1..Len(@) |-> calculate_wind_speed(@[i].u10m, @[i].v10m)])]
  /\ Advance
  /\ UNCHANGED <<files, loads, monthly, seasonal, daily, top5, hourly, shown>>

\* Series.mean(): the mean of the values that are not missing, NaN (0/0) if
\* there is none
Mean(values) ==
  LET present == SelectSeq(values, LAMBDA x : x # NaN)
  IN  IF present = <<>> THEN NaNMean ELSE Ratio(SumSeq(present), Len(present))

\* the entries of seq at the positions in at, in order
RECURSIVE Pick(_, _, _)
Pick(seq, at, i) ==
  IF i > Len(seq) THEN <<>>
  ELSE (IF i \in at THEN <<seq[i]>> ELSE <<>>) \o Pick(seq, at, i + 1)

\* df.groupby(keys)[var].mean(): one entry per key value that occurs (keys[i]
\* is the key of row i); rows whose key is missing belong to no group
GroupByMean(rows, keys, var) ==
  [k \in { keys[i] : i \in 1..Len(rows) } \ {NaN} |->
     Mean(Pick([i \in 1..Len(rows) |-> rows[i][var]],
               { i \in 1..Len(rows) : keys[i] = k }, 1))]

\* lines 98-100
monthly_average(rows, var) ==
  GroupByMean(rows, [i \in 1..Len(rows) |-> IndexMonth(rows[i].index)], var)

monthly_wind(c) ==
  /\ At("monthly", c)
  /\ monthly' = [monthly EXCEPT ![c] = monthly_average(df[c], "wind_speed")]
  /\ Advance
  /\ UNCHANGED <<files, df, loads, seasonal, daily, top5, hourly, shown>>

\* get_season with September in the Summer list
get_season_september_summer(month) ==
  IF month \in {12, 1, 2} THEN 1
  ELSE IF month \in {3, 4, 5} THEN 2
  ELSE IF month \in {6, 7, 8, 9} THEN 3
  ELSE 4

\* lines 105-117; every value that is in none of the three lists, NaN
\* included, takes the else branch
get_season(month) ==
  IF month \in {12, 1, 2} THEN 1
  ELSE IF month \in {3, 4, 5} THEN 2
  ELSE IF month \in {6, 7, 8} THEN 3
  ELSE 4

\* lines 120-121: Index.map applies get_season to every entry of index.month
assign_season(c) ==
  /\ At("season", c)
  /\ df' = [df EXCEPT ![c] =
              AddColumn(@, "season", [i \in 1..Len(@) |-> get_season(IndexMonth(@[i].index))])]
  /\ Advance
  /\ UNCHANGED <<files, loads, monthly, seasonal, daily, top5, hourly, shown>>

\* lines 123-124
seasonal_wind(c) ==
  /\ At("seasonal", c)
  /\ seasonal' = [seasonal EXCEPT ![c] =
                    GroupByMean(df[c], [i \in 1..Len(df[c]) |-> df[c][i].season], "wind_speed")]
  /\ Advance
  /\ UNCHANGED <<files, df, loads, monthly, daily, top5, hourly, shown>>

\* the rows of the table with a valid timestamp
ValidRows(rows) == SelectSeq(rows, LAMBDA r : r.index # NaT)

MinDay(rows) ==
  CHOOSE d \in { IndexDay(rows[i].index) : i \in 1..Len(rows) } :
    \A i \in 1..Len(rows) : d <= IndexDay(rows[i].index)

MaxDay(rows) ==
  CHOOSE d \in { IndexDay(rows[i].index) : i \in 1..Len(rows) } :
    \A i \in 1..Len(rows) : d >= IndexDay(rows[i].index)

\* daily bins for the days with rows only
DailyBins_days_with_rows(rows) ==
  LET valid == ValidRows(rows)
      days  == { IndexDay(valid[i].index) : i \in 1..Len(valid) }
      nth(k) == CHOOSE d \in days : Cardinality({ e \in days : e < d }) = k - 1
  IN  [k \in 1..Cardinality(days) |->
         LET bin == SelectSeq(valid, LAMBDA r : IndexDay(r.index) = nth(k))
         IN  [col \in Columns(rows[1]) |-> Mean([i \in 1..Len(bin) |-> bin[i][col]])]
             @@ [index |-> nth(k)]]

\* the daily bins: one for every calendar day from the first to the last
\* timestamp; each holds the mean of every column over the rows of that day,
\* NaN for a day without rows.  Rows with a NaT index fall in no bin.
DailyBins(rows) ==
  LET valid == ValidRows(rows)
      first == MinDay(valid)
      last  == MaxDay(valid)
  IN  [k \in 1..(last - first + 1) |->
         LET bin == SelectSeq(valid, LAMBDA r : IndexDay(r.index) = first + k - 1)
         IN  [col \in Columns(rows[1]) |-> Mean([i \in 1..Len(bin) |-> bin[i][col]])]
             @@ [index |-> first + k - 1]]

\* df.resample('D').mean(numeric_only=True): the outcomes, a daily table or
\* an exception.  The bin edges are taken from index.min() and index.max(); both
\* are NaT when no row has a valid timestamp, which the builds answer with an
\* exception or with an empty table.
resample_D_mean(rows) ==
  IF rows = <<>> THEN { [raised |-> FALSE, table |-> <<>>] }
  ELSE IF ValidRows(rows) = <<>>
       THEN { [raised |-> TRUE, table |-> <<>>], [raised |-> FALSE, table |-> <<>>] }
  ELSE { [raised |-> FALSE, table |-> DailyBins(rows)] }

daily_mean(c) ==
  /\ At("daily", c)
  /\ \E out \in resample_D_mean(df[c]) :
       IF out.raised
       THEN /\ Fail
            /\ UNCHANGED daily
       ELSE /\ daily' = [daily EXCEPT ![c] = out.table]
            /\ Advance
  /\ UNCHANGED <<files, df, loads, monthly, seasonal, top5, hourly, shown>>

\* lines 134 and 137: the number of days asked for
TopN == 5

\* s with x inserted behind every entry that is not smaller: a stable
\* (merge) sort in descending order
RECURSIVE InsertDesc(_, _)
InsertDesc(s, x) ==
  IF s = <<>> THEN <<x>>
  ELSE IF Less(Head(s).wind_speed, x.wind_speed) THEN <<x>> \o s
  ELSE <<Head(s)>> \o InsertDesc(Tail(s), x)

RECURSIVE MergesortDesc(_)
MergesortDesc(s) ==
  IF s = <<>> THEN <<>>
  ELSE InsertDesc(MergesortDesc(SubSeq(s, 1, Len(s) - 1)), s[Len(s)])

Take(s, n) == SubSeq(s, 1, IF n < Len(s) THEN n ELSE Len(s))

\* Series.sort_values(ascending=False): the default quicksort, NaN last
sort_values_desc(series) ==
  LET n       == Len(series)
      missing == { a \in 1..n : series[a].wind_speed = NaNMean }
      larger  == [a \in 1..n |-> [b \in 1..n |->
                    /\ a \notin missing /\ b \notin missing
                    /\ Less(series[b].wind_speed, series[a].wind_speed)]]
  IN  { Permute(series, p) : p \in QuicksortOrders(n, larger, missing) }

\* nlargest taking the smallest values
nlargest_smallest(series, n) ==
  LET dropped   == SelectSeq(series, LAMBDA e : e.wind_speed # NaNMean)
      nan_index == SelectSeq(series, LAMBDA e : e.wind_speed = NaNMean)
      asc       == [i \in 1..Len(dropped) |-> MergesortDesc(dropped)[Len(dropped) + 1 - i]]
  IN  { Take(asc \o nan_index, n) }

\* Series.nlargest(n), keep='first': the whole series sorted when it has at
\* most n entries; otherwise the n largest values by a stable sort, filled up
\* with the NaN entries
nlargest(series, n) ==
  LET dropped   == SelectSeq(series, LAMBDA e : e.wind_speed # NaNMean)
      nan_index == SelectSeq(series, LAMBDA e : e.wind_speed = NaNMean)
  IN  IF n >= Len(series)
      THEN { Take(s, n) : s \in sort_values_desc(series) }
      ELSE { Take(Take(MergesortDesc(dropped), n) \o nan_index, n) }

\* the 'wind_speed' column of the daily table
DailySeries(c) ==
  [i \in 1..Len(daily[c]) |->
     [index |-> daily[c][i].index, wind_speed |-> daily[c][i].wind_speed]]

print_top5(c) ==
  /\ At("top5", c)
  /\ \E out \in nlargest(DailySeries(c), TopN) : top5' = [top5 EXCEPT ![c] = out]
  /\ Advance
  /\ UNCHANGED <<files, df, loads, monthly, seasonal, daily, hourly, shown>>

\* lines 140-141
assign_hour(c) ==
  /\ At("hour", c)
  /\ df' = [df EXCEPT ![c] = AddColumn(@, "hour", [i \in 1..Len(@) |-> IndexHour(@[i].index)])]
  /\ Advance
  /\ UNCHANGED <<files, loads, monthly, seasonal, daily, top5, hourly, shown>>

\* lines 143-144
hourly_pattern(c) ==
  /\ At("hourly", c)
  /\ hourly' = [hourly EXCEPT ![c] =
                  GroupByMean(df[c], [i \in 1..Len(df[c]) |-> df[c][i].hour], "wind_speed")]
  /\ Advance
  /\ UNCHANGED <<files, df, loads, monthly, seasonal, daily, top5, shown>>

\* ---------------------------------------------------------------- Renderer
\* line 172
season_labels == <<"Winter", "Spring", "Summer", "Autumn">>

\* lines 161-193: the three figures, each ended by plt.show()
show(chart) ==
  /\ At("show", chart)
  /\ shown' = Append(shown, chart)
  /\ Advance
  /\ UNCHANGED <<files, df, loads, monthly, seasonal, daily, top5, hourly>>

\* ------------------------------------------------------------ the pipeline
Next ==
  \/ \E c \in Cities : load_era5_data(c)
  \/ \E c \in Cities : dropna(c)
  \/ \E c \in Cities : wind_speed(c)
  \/ \E c \in Cities : monthly_wind(c)
  \/ \E c \in Cities : assign_season(c)
  \/ \E c \in Cities : seasonal_wind(c)
  \/ \E c \in Cities : daily_mean(c)
  \/ \E c \in Cities : print_top5(c)
  \/ \E c \in Cities : assign_hour(c)
  \/ \E c \in Cities : hourly_pattern(c)
  \/ \E chart \in {"monthly", "seasonal", "diurnal"} : show(chart)

Spec == Init /\ [][Next]_vars

\* ============================================================== properties
\* the season of each month as the specification lists it:
\* {12,1,2} Winter, {3,4,5} Spring, {6,7,8} Summer, {9,10,11} Autumn
SeasonOfMonth == <<1, 1, 2, 2, 2, 3, 3, 3, 4, 4, 4, 1>>

Min(a, b) == IF a < b THEN a ELSE b

Count(s, Test(_)) == Len(SelectSeq(s, Test))

\* the rows of the table as the Loader parsed them, before sorting
Parsed(c) == ParsedRows(files[c])

\* the Loader has run for c and the Cleaner has not yet
JustLoaded(c) == Past("load", c) /\ ~Past("dropna", c)

\* a row with a missing value in a field: the timestamp or a wind component
Incomplete(r) == r.index = NaT \/ r.u10m = NaN \/ r.v10m = NaN

\* value is the mean of the wind_speed of the rows in group (not empty)
IsMeanOf(value, group) ==
  /\ group # <<>>
  /\ value.den > 0
  /\ value.num * Len(group) = value.den * SumSeq([i \in 1..Len(group) |-> group[i].wind_speed])

\* agg maps exactly the keys some row of rows has to the mean of their rows
IsGroupMean(agg, rows, KeyOf(_), Keys) ==
  /\ DOMAIN agg = { k \in Keys : \E i \in 1..Len(rows) : KeyOf(rows[i]) = k }
  /\ \A k \in DOMAIN agg : IsMeanOf(agg[k], SelectSeq(rows, LAMBDA r : KeyOf(r) = k))

\* the key a timestamp maps to: none (NaN) for an invalid timestamp
MonthKey(r) == IndexMonth(r.index)
SeasonKey(r) == IF r.index = NaT THEN NaN ELSE SeasonOfMonth[IndexMonth(r.index)]
HourKey(r) == IndexHour(r.index)
DayKey(r) == IF r.index = NaT THEN NaN ELSE IndexDay(r.index)

\* the calendar days on which the table has a row
DaysOf(rows) == { DayKey(rows[i]) : i \in 1..Len(rows) } \ {NaN}

\* C1: after the Cleaner no row with an invalid timestamp is left in the
\* dataset, and none contributes to a monthly, seasonal, daily or hourly
\* aggregate.
C1_InvalidTimestampsRemoved ==
  \A c \in Cities :
    /\ Past("dropna", c) => \A i \in 1..Len(df[c]) : df[c][i].index # NaT
    /\ Past("monthly", c) => IsGroupMean(monthly[c], ValidRows(df[c]), MonthKey, 1..12)
    /\ Past("seasonal", c) =>
         IsGroupMean(seasonal[c], ValidRows(df[c]), LAMBDA r : r.season, 1..4)
    /\ Past("hourly", c) => IsGroupMean(hourly[c], ValidRows(df[c]), HourKey, 0..23)
    /\ Past("daily", c) =>
         \A i \in 1..Len(daily[c]) :
           daily[c][i].wind_speed # NaNMean =>
             IsMeanOf(daily[c][i].wind_speed,
                      SelectSeq(ValidRows(df[c]), LAMBDA r : DayKey(r) = daily[c][i].index))

\* C2: once the Cleaner has run no row has a missing value in any column, in
\* this and in every later state, so that cleaning again removes no row.
C2_NoMissingAfterCleaner ==
  \A c \in Cities :
    Past("dropna", c) =>
      /\ \A i \in 1..Len(df[c]) : ~HasNaN(df[c][i])
      /\ dropna_rows(df[c]) = df[c]

\* C3: the Cleaner removes exactly the incomplete rows: the row count drops
\* by the number of rows with a missing field, every complete row is kept
\* unchanged, and no row with a missing wind component is left to be counted
\* in an aggregate.
C3_CleanerRemovesExactlyIncomplete ==
  \A c \in Cities :
    Past("dropna", c) =>
      /\ Len(df[c]) = Len(Parsed(c)) - Count(Parsed(c), Incomplete)
      /\ \A i \in 1..Len(Parsed(c)) :
           ~Incomplete(Parsed(c)[i]) =>
             Count(df[c], LAMBDA r : r.index = Parsed(c)[i].index /\ r.u10m = Parsed(c)[i].u10m
                                     /\ r.v10m = Parsed(c)[i].v10m)
               = Count(Parsed(c), LAMBDA r : r = Parsed(c)[i])
      /\ \A i \in 1..Len(df[c]) : df[c][i].u10m # NaN /\ df[c][i].v10m # NaN

\* C4: get_season maps every month 1..12 to the code of its season (12, 1, 2
\* Winter = 1; 3, 4, 5 Spring = 2; 6, 7, 8 Summer = 3; 9, 10, 11 Autumn = 4),
\* so does the season column for every row with a valid timestamp, and the
\* chart labels name the codes 1..4 Winter, Spring, Summer, Autumn.
C4_GetSeasonRule ==
  /\ \A month \in 1..12 : get_season(month) \in 1..4 /\ get_season(month) = SeasonOfMonth[month]
  /\ [s \in 1..4 |-> season_labels[s]] = <<"Winter", "Spring", "Summer", "Autumn">>
  /\ \A c \in Cities :
       Past("season", c) =>
         \A i \in 1..Len(df[c]) :
           df[c][i].index # NaT => df[c][i].season = SeasonKey(df[c][i])

\* C4 witness: a table with rows of two seasons has its season column
C4_Witness ==
  \E c \in Cities :
    /\ Past("season", c)
    /\ \E i, j \in 1..Len(df[c]) :
         /\ df[c][i].index # NaT /\ df[c][j].index # NaT
         /\ df[c][i].season = 3 /\ df[c][j].season = 4

\* C5: every monthly, seasonal and hourly aggregate holds, for exactly the
\* keys some cleaned row's timestamp maps to, the mean of the wind_speed of
\* the rows whose timestamp maps to the key.
C5_AggregatesAreGroupMeans ==
  \A c \in Cities :
    /\ Past("monthly", c) => IsGroupMean(monthly[c], df[c], MonthKey, 1..12)
    /\ Past("seasonal", c) => IsGroupMean(seasonal[c], df[c], SeasonKey, 1..4)
    /\ Past("hourly", c) => IsGroupMean(hourly[c], df[c], HourKey, 0..23)

\* the entries of the daily series that are not in the ranking
LeftOut(c) ==
  SelectSeq(DailySeries(c), LAMBDA e : \A k \in 1..Len(top5[c]) : top5[c][k].index # e.index)

\* a before b holds for every two entries of s, a the earlier one
Ordered(s, Before(_, _)) == \A i, j \in 1..Len(s) : i < j => Before(s[i], s[j])

\* C6 as the specification states it: the ranking has min(5, number of
\* distinct days in the cleaned data) entries, in non-increasing order of
\* daily mean, no day left out has a larger mean than a day listed, and days
\* of equal mean are in chronological order.
C6_Original ==
  \A c \in Cities :
    Past("top5", c) =>
      /\ Len(top5[c]) = Min(TopN, Cardinality(DaysOf(df[c])))
      /\ \A k \in 1..Len(top5[c]) : top5[c][k].wind_speed # NaNMean
      /\ Ordered(top5[c], LAMBDA a, b : ~Less(a.wind_speed, b.wind_speed))
      /\ \A k \in 1..Len(top5[c]) : \A m \in 1..Len(LeftOut(c)) :
           LeftOut(c)[m].wind_speed # NaNMean
             => ~Less(top5[c][k].wind_speed, LeftOut(c)[m].wind_speed)
      /\ Ordered(top5[c], LAMBDA a, b : a.wind_speed = b.wind_speed => a.index < b.index)

\* C6, amended: the ranking has min(5, number of rows of the daily table)
\* entries, each another row of the daily table; the days with data come
\* first, in non-increasing order of daily mean, the days without data (mean
\* NaN) after them and only when no day with data is left out; no day with
\* data left out has a larger mean than a day listed; and when the daily
\* table has more than 5 rows, days of equal mean are in chronological order
\* and a day left out is later than every listed day of the same mean.
C6_Amended ==
  \A c \in Cities :
    Past("top5", c) =>
      LET top  == top5[c]
          out  == LeftOut(c)
          Data(e) == e.wind_speed # NaNMean
      IN  /\ Len(top) = Min(TopN, Len(daily[c]))
          /\ \A k \in 1..Len(top) : \E i \in 1..Len(daily[c]) : DailySeries(c)[i] = top[k]
          /\ Ordered(top, LAMBDA a, b : a.index # b.index)
          /\ Ordered(top, LAMBDA a, b : Data(b) => Data(a) /\ ~Less(a.wind_speed, b.wind_speed))
          /\ \A m \in 1..Len(out) :
               Data(out[m]) =>
                 \A k \in 1..Len(top) :
                   Data(top[k]) /\ ~Less(top[k].wind_speed, out[m].wind_speed)
          /\ Len(daily[c]) > TopN =>
               /\ Ordered(top, LAMBDA a, b :
                    Data(a) /\ a.wind_speed = b.wind_speed => a.index < b.index)
               /\ \A m \in 1..Len(out) : \A k \in 1..Len(top) :
                    top[k].wind_speed = out[m].wind_speed /\ Data(out[m])
                      => top[k].index < out[m].index

\* C6 witness: a ranking of five days with data, two of them of equal mean,
\* out of more than five days with data
C6_Witness ==
  \E c \in Cities :
    /\ Past("top5", c)
    /\ Len(top5[c]) = TopN
    /\ \A k \in 1..TopN : top5[c][k].wind_speed # NaNMean
    /\ top5[c][2].wind_speed = top5[c][3].wind_speed
    /\ Less(top5[c][TopN].wind_speed, top5[c][1].wind_speed)
    /\ \E m \in 1..Len(LeftOut(c)) : LeftOut(c)[m].wind_speed = top5[c][TopN].wind_speed

\* C7 as the specification states it: the daily table has exactly one row
\* for each calendar day with a row in the cleaned data and none for another
\* day, and each holds the mean wind_speed of the rows of its day.
C7_Original ==
  \A c \in Cities :
    Past("daily", c) =>
      /\ { daily[c][i].index : i \in 1..Len(daily[c]) } = DaysOf(df[c])
      /\ Len(daily[c]) = Cardinality(DaysOf(df[c]))
      /\ \A i \in 1..Len(daily[c]) :
           IsMeanOf(daily[c][i].wind_speed,
                    SelectSeq(df[c], LAMBDA r : DayKey(r) = daily[c][i].index))

\* C7, amended: the daily table has exactly one row, in chronological order,
\* for every calendar day from the first to the last day on which the cleaned
\* data has a row with a valid timestamp (no row when there is none); the row
\* of a day with data holds the mean wind_speed of the rows of that day, the
\* row of a day in between without data holds NaN.
C7_Amended ==
  \A c \in Cities :
    Past("daily", c) =>
      LET days == DaysOf(df[c])
      IN  /\ { daily[c][i].index : i \in 1..Len(daily[c]) } =
               UNION { a..b : a \in days, b \in days }
          /\ Ordered(daily[c], LAMBDA a, b : a.index < b.index)
          /\ \A i \in 1..Len(daily[c]) :
               LET rows == SelectSeq(df[c], LAMBDA r : DayKey(r) = daily[c][i].index)
               IN  IF rows = <<>> THEN daily[c][i].wind_speed = NaNMean
                   ELSE IsMeanOf(daily[c][i].wind_speed, rows)

\* C7 witness: a daily table with a day without data between days with data
C7_Witness ==
  \E c \in Cities :
    /\ Past("daily", c)
    /\ \E i, j, k \in 1..Len(daily[c]) :
         /\ i < j /\ j < k
         /\ daily[c][i].wind_speed # NaNMean
         /\ daily[c][j].wind_speed = NaNMean
         /\ daily[c][k].wind_speed # NaNMean

\* a load of c has raised
LoadFailed(c) == loads[c] > 0 /\ LoadRaises(files[c])

\* nothing after the loads has been done
NothingDone ==
  /\ \A c \in Cities : ~Past("dropna", c)
  /\ monthly = [c \in Cities |-> <<>>] /\ seasonal = [c \in Cities |-> <<>>]
  /\ hourly = [c \in Cities |-> <<>>] /\ daily = [c \in Cities |-> <<>>]
  /\ top5 = [c \in Cities |-> <<>>] /\ shown = <<>>

\* C8: each file is loaded at most once; a failed load ends the run in
\* failure at once, with no cleaning, aggregate, ranking or chart done; with
\* no failed load the run goes on to completion, and completes having shown
\* the monthly, the seasonal and the diurnal chart in this order.
C8_LoadFailureOrCompletion ==
  /\ \A c \in Cities : loads[c] <= 1
  /\ (\E c \in Cities : LoadFailed(c)) => status = "failed" /\ NothingDone
  /\ (\A c \in Cities : ~LoadFailed(c)) =>
       /\ status # "failed"
       /\ status = "running" => pc \in 1..Len(Program)
       /\ status = "done" => shown = <<"monthly", "seasonal", "diurnal">>
       /\ \E n \in 0..3 : shown = SubSeq(<<"monthly", "seasonal", "diurnal">>, 1, n)

\* the rows of s with timestamp ts, in their order
WithStamp(s, ts) == SelectSeq(s, LAMBDA r : r.index = ts)

Stamps(s) == { s[i].index : i \in 1..Len(s) }

\* C9 as the specification states it: the loaded table is in ascending order
\* of timestamp and rows of equal timestamp are in the order of the file.
C9_Original ==
  \A c \in Cities :
    JustLoaded(c) =>
      /\ Ordered(df[c], LAMBDA a, b : a.index # NaT /\ b.index # NaT => a.index <= b.index)
      /\ \A ts \in Stamps(Parsed(c)) \ {NaT} : WithStamp(df[c], ts) = WithStamp(Parsed(c), ts)

\* C9, amended: the loaded table holds the rows of the file, those with a
\* valid timestamp in ascending order of timestamp and before those
\* without; rows of equal timestamp are in the order of the file when the
\* file is already in non-decreasing order of timestamp and has no invalid
\* timestamp (otherwise their order is not determined).
C9_Amended ==
  \A c \in Cities :
    JustLoaded(c) =>
      /\ Ordered(df[c], LAMBDA a, b : a.index # NaT /\ b.index # NaT => a.index <= b.index)
      /\ Ordered(df[c], LAMBDA a, b : a.index = NaT => b.index = NaT)
      /\ Len(df[c]) = Len(Parsed(c))
      /\ \A i \in 1..Len(Parsed(c)) :
           Count(df[c], LAMBDA r : r = Parsed(c)[i]) = Count(Parsed(c), LAMBDA r : r = Parsed(c)[i])
      /\ is_monotonic_increasing(Parsed(c)) => df[c] = Parsed(c)

\* C9 witness: a loaded table whose file was out of order and had two
\* different rows of the same valid timestamp
C9_Witness ==
  \E c \in Cities :
    /\ JustLoaded(c)
    /\ ~is_monotonic_increasing(Parsed(c))
    /\ \E i, j \in 1..Len(df[c]) :
         /\ i < j
         /\ df[c][i].index = df[c][j].index /\ df[c][i].index # NaT
         /\ df[c][i] # df[c][j]
    /\ \E i, j \in 1..Len(Parsed(c)) :
         i < j /\ Parsed(c)[j].index # NaT /\ Parsed(c)[j].index < Parsed(c)[i].index

\* the number of rows of a group, summed over the keys of an aggregate
GroupSizes(agg, rows, KeyOf(_)) ==
  Count(rows, LAMBDA r : KeyOf(r) # NaN /\ KeyOf(r) \in DOMAIN agg)

\* C10: the monthly, the seasonal and the hourly aggregate each partition
\* the cleaned rows: the group sizes of each sum to the number of rows; a row
\* of a season is a row of one of its three months; no row whose month is not
\* 9, 10 or 11 is in Autumn (4).
C10_AggregatesPartitionRows ==
  \A c \in Cities :
    Past("hourly", c) =>
      /\ GroupSizes(monthly[c], df[c], LAMBDA r : IndexMonth(r.index)) = Len(df[c])
      /\ GroupSizes(seasonal[c], df[c], LAMBDA r : r.season) = Len(df[c])
      /\ GroupSizes(hourly[c], df[c], LAMBDA r : r.hour) = Len(df[c])
      /\ \A i \in 1..Len(df[c]) :
           /\ IndexMonth(df[c][i].index) \in DOMAIN monthly[c]
           /\ IndexMonth(df[c][i].index) \in 1..12
           /\ SeasonOfMonth[IndexMonth(df[c][i].index)] = df[c][i].season
           /\ df[c][i].season = 4 => IndexMonth(df[c][i].index) \in {9, 10, 11}

====
